---------------------------- MODULE Spec2Model ----------------------------
(***************************************************************************)
(* Model of "app transcription/app.py": a background worker thread         *)
(* (worker_transcribe) that posts status events on a queue, and the        *)
(* Tk window (class App) whose handlers browse_file, start_transcription,  *)
(* poll_queue and save_txt run on the single UI thread.                    *)
(*                                                                         *)
(* Strings that the program only passes around (paths, exception texts)    *)
(* are TLA+ strings.  Transcript text is a sequence of characters, so that *)
(* concatenation, the appended line break and the newline translation of   *)
(* text-mode file I/O are computed, not assumed.                           *)
(***************************************************************************)
EXTENDS Integers, Sequences, FiniteSets, TLC

(***************************************************************************)
(* Bounds of the model.                                                    *)
(***************************************************************************)
\* number of Start actions that pass validation (worker threads ever spawned)
MaxRuns == 2
\* number of segments the engine's lazy sequence yields at most, in the model
\* of the whole application
MaxSegs == 1
\* number of segments the engine yields at most, for a worker on its own
MaxWorkerSegs == 3
\* largest time stamp (in time units) of a segment start or end
MaxTime == 2
\* largest info.duration the engine reports (0 stands for 0.0 or None)
MaxDuration == 3

\* texts of the segments the engine can yield
SegTexts == {<<"a">>, <<"b">>}
\* what the engine can do in the model of the whole application: the bound on
\* its segments, their time stamps, the durations it reports, their texts
Engine == [segs |-> MaxSegs, times |-> {0, 1}, durations |-> {0, 1},
           texts |-> SegTexts]
\* what the engine can do for a worker on its own
RichEngine == [segs |-> MaxWorkerSegs, times |-> 0..MaxTime,
               durations |-> 0..MaxDuration, texts |-> SegTexts]
\* texts of the exceptions the engine or the file system can raise
ExcTexts == {"model not found"}
\* what the path entry and the file dialogs can hold; "" is a cancelled dialog
Paths == {"", "sample.wav"}
\* the audio files that exist on disk
ExistingFiles == {"sample.wav"}
\* what asksaveasfilename returns
SavePaths == {"", "out.txt"}
\* os.linesep of the platforms the program runs on (POSIX, Windows)
LineSeps == {<<"\n">>, <<"\r", "\n">>}

Workers == 1..MaxRuns

VARIABLES
    \* ---- App (UI thread) ----
    entry_file,     \* self.entry_file: content of the path entry
    btn_start,      \* self.btn_start state: "normal" | "disabled"
    btn_save,       \* self.btn_save state:  "normal" | "disabled"
    progress,       \* self.progress value, a fraction <<num, den>>
    txt,            \* self.txt content, a sequence of characters
    has_full_text,  \* whether the attribute self.full_text exists
    full_text,      \* self.full_text (meaningful when has_full_text)
    q,              \* self.q: FIFO of events [type, payload, src]
    thread,         \* self.thread: id of the last worker spawned, 0 = None
    polling,        \* TRUE while poll_queue is inside its drain loop
    scheduled,      \* TRUE while a call of poll_queue is pending (self.after)
    dialog,         \* the last message box shown
    file,           \* the file written by save_txt: [exists, data]
    \* ---- worker threads ----
    wk,             \* per worker: locals and position of worker_transcribe
    \* ---- history (not program state) ----
    emitted,        \* per worker: the events it has put on the queue, in order
    txt_src,        \* the workers whose TextChunks are in txt
    buf_src,        \* the worker whose Done payload is in full_text, 0 = none
    term_applied,   \* per worker: terminal event applied by poll_queue ("none" if not)
    overlap,        \* TRUE iff the last Start found an earlier worker still running
    q_idx,          \* beside q: the position in emitted[src] of each queued event
    applied,        \* per worker: positions of the events poll_queue applied, in order
    yielded         \* per worker: [len, text] of the segments the engine yielded

vars == <<entry_file, btn_start, btn_save, progress, txt, has_full_text, full_text,
          q, thread, polling, scheduled, dialog, file, wk, emitted, txt_src,
          buf_src, term_applied, overlap, q_idx, applied, yielded>>

ui_vars == <<entry_file, btn_start, btn_save, progress, txt, has_full_text, full_text,
             thread, polling, scheduled, dialog, file, txt_src, buf_src,
             term_applied, overlap, applied>>

(***************************************************************************)
(* Fractions: a progress value is num/den with den > 0, kept in lowest     *)
(* terms so that equal values are equal tuples.                            *)
(***************************************************************************)
RECURSIVE GCD(_, _)
GCD(a, b) == IF b = 0 THEN a ELSE GCD(b, a % b)

Frac(n, d) == IF n = 0 THEN <<0, 1>> ELSE <<n \div GCD(n, d), d \div GCD(n, d)>>

FracLeq(a, b) == a[1] * b[2] <= b[1] * a[2]

One == <<1, 1>>
Zero == <<0, 1>>

(***************************************************************************)
(* worker_transcribe                                                       *)
(***************************************************************************)
\* f"Erreur chargement modèle : {e}"
LoadErrorMessage(e) == "Erreur chargement modèle : " \o e

\* f"Erreur transcription : {e}"
TranscribeErrorMessage(e) == "Erreur transcription : " \o e

\* duration = info.duration or 1
EffectiveDuration(d) == IF d = 0 THEN 1 ELSE d

\* variant: the clamp to 1.0 left out, done / duration
ProgressValue_unclamped(done, duration) == Frac(done, duration)

\* min(done / duration, 1.0)
ProgressValue(done, duration) ==
    IF done >= duration THEN One ELSE Frac(done, duration)

\* variant: "=" written for "+=", full_text = seg.text + "\n"
AppendSegment_overwrite(full, text) == text \o <<"\n">>

\* full_text += seg.text + "\n"
AppendSegment(full, text) == full \o text \o <<"\n">>

\* q.put((msg_type, payload)), recorded in the worker's history
Put(w, type, payload) ==
    LET ev == [type |-> type, payload |-> payload, src |-> w]
    IN  /\ q' = Append(q, ev)
        /\ emitted' = [emitted EXCEPT ![w] = Append(@, ev)]
        /\ q_idx' = Append(q_idx, Len(emitted[w]) + 1)

\* locals of a thread that has not been created yet
Unborn == [pc |-> "unborn", e |-> "", duration |-> 1, done |-> 0,
           full_text |-> <<>>, seg |-> <<>>, n |-> 0]

\* locals at the entry of worker_transcribe
Entered == [Unborn EXCEPT !.pc = "load"]

\* variant: the "return" of the except block left out, so that the worker
\* goes on to the transcribe call after posting the load error
worker_load_no_return(w) ==
    /\ wk[w].pc = "load"
    /\ \/ /\ wk' = [wk EXCEPT ![w].pc = "transcribe"]
          /\ UNCHANGED <<q, emitted, q_idx>>
       \/ \E e \in ExcTexts :
            /\ Put(w, "error", LoadErrorMessage(e))
            /\ wk' = [wk EXCEPT ![w].pc = "transcribe", ![w].e = e]
    /\ UNCHANGED ui_vars
    /\ UNCHANGED yielded

\* m = WhisperModel(...): succeeds, or raises and the worker posts the error
worker_load(w) ==
    /\ wk[w].pc = "load"
    /\ \/ /\ wk' = [wk EXCEPT ![w].pc = "transcribe"]
          /\ UNCHANGED <<q, emitted, q_idx>>
       \/ \E e \in ExcTexts :
            /\ Put(w, "error", LoadErrorMessage(e))
            /\ wk' = [wk EXCEPT ![w].pc = "return_load_error", ![w].e = e]
    /\ UNCHANGED ui_vars
    /\ UNCHANGED yielded

\* segments, info = m.transcribe(...): succeeds, or raises and the worker
\* posts the error; on success duration, done and full_text are initialised
worker_call_transcribe(w, eng) ==
    /\ wk[w].pc = "transcribe"
    /\ \/ \E d \in eng.durations :
            /\ wk' = [wk EXCEPT ![w].pc = "next",
                                ![w].duration = EffectiveDuration(d),
                                ![w].done = 0,
                                ![w].full_text = <<>>]
            /\ UNCHANGED <<q, emitted, q_idx>>
       \/ \E e \in ExcTexts :
            /\ Put(w, "error", TranscribeErrorMessage(e))
            /\ wk' = [wk EXCEPT ![w].pc = "return_transcribe_error", ![w].e = e]
    /\ UNCHANGED ui_vars
    /\ UNCHANGED yielded

\* variant: "=" written for "+=", done = seg.end - seg.start
worker_next_segment_no_accumulate(w, eng) ==
    /\ wk[w].pc = "next"
    /\ wk[w].n < eng.segs
    /\ \E start \in eng.times, end \in eng.times, text \in eng.texts :
            /\ start <= end
            /\ LET done == end - start
               IN  /\ Put(w, "progress", ProgressValue(done, wk[w].duration))
                   /\ wk' = [wk EXCEPT ![w].pc = "put_text",
                                       ![w].done = done,
                                       ![w].seg = text,
                                       ![w].n = @ + 1]
                   /\ yielded' = [yielded EXCEPT ![w] =
                                     Append(@, [len |-> end - start, text |-> text])]
    /\ UNCHANGED ui_vars

\* for seg in segments: the generator yields the next segment, and the worker
\* accumulates its length and posts the progress
worker_next_segment(w, eng) ==
    /\ wk[w].pc = "next"
    /\ wk[w].n < eng.segs
    /\ \E start \in eng.times, end \in eng.times, text \in eng.texts :
            /\ start <= end
            /\ LET done == wk[w].done + (end - start)
               IN  /\ Put(w, "progress", ProgressValue(done, wk[w].duration))
                   /\ wk' = [wk EXCEPT ![w].pc = "put_text",
                                       ![w].done = done,
                                       ![w].seg = text,
                                       ![w].n = @ + 1]
                   /\ yielded' = [yielded EXCEPT ![w] =
                                     Append(@, [len |-> end - start, text |-> text])]
    /\ UNCHANGED ui_vars

\* q.put(("text", seg.text)); full_text += seg.text + "\n"
worker_put_text(w) ==
    /\ wk[w].pc = "put_text"
    /\ Put(w, "text", wk[w].seg)
    /\ wk' = [wk EXCEPT ![w].pc = "next",
                        ![w].full_text = AppendSegment(@, wk[w].seg)]
    /\ UNCHANGED ui_vars
    /\ UNCHANGED yielded

\* the generator is exhausted: q.put(("done", full_text))
worker_done(w) ==
    /\ wk[w].pc = "next"
    /\ Put(w, "done", wk[w].full_text)
    /\ wk' = [wk EXCEPT ![w].pc = "return_done"]
    /\ UNCHANGED ui_vars
    /\ UNCHANGED yielded

\* the generator raises while decoding the next segment: the for loop is in
\* no try block, so the exception ends the thread
worker_decode_raises(w) ==
    /\ wk[w].pc = "next"
    /\ wk' = [wk EXCEPT ![w].pc = "raised"]
    /\ UNCHANGED <<q, emitted, q_idx>>
    /\ UNCHANGED ui_vars
    /\ UNCHANGED yielded

\* a thread that can still put events
Alive(w) == wk[w].pc \in {"load", "transcribe", "next", "put_text"}

\* a thread whose call of worker_transcribe has returned
Returned(w) ==
    wk[w].pc \in {"return_load_error", "return_transcribe_error", "return_done"}


(***************************************************************************)
(* App: the window.  Every handler runs on the UI thread; a handler that   *)
(* shows a message box returns when the user dismisses it.                 *)
(***************************************************************************)
\* os.path.isfile(audio_path)
isfile(path) == path \in ExistingFiles

\* messagebox.showinfo / messagebox.showerror
showinfo(text) == [kind |-> "info", text |-> text]
showerror(text) == [kind |-> "error", text |-> text]
NoDialog == [kind |-> "none", text |-> ""]

\* open(path, "w", encoding="utf-8").write(text): text mode translates each
\* "\n" to os.linesep
RECURSIVE TextModeWrite(_, _)
TextModeWrite(text, sep) ==
    IF text = <<>> THEN <<>>
    ELSE (IF Head(text) = "\n" THEN sep ELSE <<Head(text)>>)
         \o TextModeWrite(Tail(text), sep)

\* open(path, encoding="utf-8").read(): universal newlines turn "\r\n" and
\* "\r" into "\n"
RECURSIVE TextModeRead(_)
TextModeRead(data) ==
    IF data = <<>> THEN <<>>
    ELSE IF Head(data) = "\r"
         THEN IF Len(data) >= 2 /\ data[2] = "\n"
              THEN <<"\n">> \o TextModeRead(Tail(Tail(data)))
              ELSE <<"\n">> \o TextModeRead(Tail(data))
         ELSE <<Head(data)>> \o TextModeRead(Tail(data))

\* variant: the Save button is created enabled
InitialSaveState_normal == "normal"

\* the state App.__init__ creates the Save button in
InitialSaveState == "disabled"

\* App.__init__: the state of the window after construction
Init ==
    /\ entry_file = ""
    /\ btn_start = "disabled"
    /\ btn_save = InitialSaveState
    /\ progress = Zero
    /\ txt = <<>>
    /\ has_full_text = FALSE
    /\ full_text = <<>>
    /\ q = <<>>
    /\ thread = 0
    /\ polling = FALSE
    /\ scheduled = TRUE
    /\ dialog = NoDialog
    /\ file = [exists |-> FALSE, data |-> <<>>]
    /\ wk = [w \in Workers |-> Unborn]
    /\ emitted = [w \in Workers |-> <<>>]
    /\ txt_src = {}
    /\ buf_src = 0
    /\ term_applied = [w \in Workers |-> "none"]
    /\ overlap = FALSE
    /\ q_idx = <<>>
    /\ applied = [w \in Workers |-> <<>>]
    /\ yielded = [w \in Workers |-> <<>>]

\* the user types in the path entry
edit_entry ==
    /\ ~polling
    /\ \E path \in Paths : entry_file' = path
    /\ entry_file' # entry_file
    /\ UNCHANGED <<btn_start, btn_save, progress, txt, has_full_text, full_text, q,
                   thread, polling, scheduled, dialog, file, wk, emitted,
                   txt_src, buf_src, term_applied, overlap, q_idx, applied,
                   yielded>>

\* the state browse_file gives the Start button once a path was chosen
BrowseStartState == "normal"

\* browse_file when askopenfilename returns path: a chosen path fills the
\* entry and enables Start, a cancelled dialog ("") changes nothing
browse_path(path) ==
    /\ ~polling
    /\ IF path # ""
       THEN /\ entry_file' = path
            /\ btn_start' = BrowseStartState
       ELSE UNCHANGED <<entry_file, btn_start>>
    /\ UNCHANGED <<btn_save, progress, txt, has_full_text, full_text, q,
                   thread, polling, scheduled, dialog, file, wk, emitted,
                   txt_src, buf_src, term_applied, overlap, q_idx, applied,
                   yielded>>

\* browse_file: the Browse button's command
browse_file == \E path \in Paths : browse_path(path)

\* variant: the validation left out
PathAccepted_always(path) == TRUE

\* the validation at the head of start_transcription
PathAccepted(path) == isfile(path)

\* variant: start_transcription leaves the Save button as it is
StartSaveState_kept == btn_save

\* the state start_transcription gives the Save button
StartSaveState == "disabled"

\* variant: the queue is not cleared
ClearedQueue_kept(queue) == queue

\* the queue after self.q.queue.clear()
ClearedQueue(queue) == <<>>

\* the text view after self.txt.delete("1.0", "end")
ClearedText(text) == <<>>

\* variant: the view and the progress bar are reset before the path is
\* validated
start_transcription_resets_first ==
    /\ ~polling
    /\ btn_start = "normal"
    /\ txt' = ClearedText(txt)
    /\ txt_src' = IF txt' = <<>> THEN {} ELSE txt_src
    /\ progress' = Zero
    /\ IF ~PathAccepted(entry_file)
       THEN /\ dialog' = showerror("Fichier invalide.")
            /\ UNCHANGED <<entry_file, btn_start, btn_save,
                           has_full_text, full_text, q, thread, polling,
                           scheduled, file, wk, emitted, buf_src,
                           term_applied, overlap, q_idx, applied, yielded>>
       ELSE /\ thread < MaxRuns
            /\ btn_start' = "disabled"
            /\ btn_save' = StartSaveState
            /\ q' = ClearedQueue(q)
            /\ q_idx' = ClearedQueue(q_idx)
            /\ thread' = thread + 1
            /\ wk' = [wk EXCEPT ![thread + 1] = Entered]
            /\ overlap' = (\E w \in Workers : Alive(w))
            /\ UNCHANGED <<entry_file, has_full_text, full_text, polling,
                           scheduled, dialog, file, emitted, buf_src,
                           term_applied, applied, yielded>>

\* start_transcription: the Start button's command
start_transcription ==
    /\ ~polling
    /\ btn_start = "normal"
    /\ IF ~PathAccepted(entry_file)
       THEN /\ dialog' = showerror("Fichier invalide.")
            /\ UNCHANGED <<entry_file, btn_start, btn_save, progress, txt,
                           has_full_text, full_text, q, thread, polling,
                           scheduled, file, wk, emitted, txt_src, buf_src,
                           term_applied, overlap, q_idx, applied, yielded>>
       ELSE /\ thread < MaxRuns
            /\ txt' = ClearedText(txt)
            /\ txt_src' = IF txt' = <<>> THEN {} ELSE txt_src
            /\ progress' = Zero
            /\ btn_start' = "disabled"
            /\ btn_save' = StartSaveState
            /\ q' = ClearedQueue(q)
            /\ q_idx' = ClearedQueue(q_idx)
            /\ thread' = thread + 1
            /\ wk' = [wk EXCEPT ![thread + 1] = Entered]
            /\ overlap' = (\E w \in Workers : Alive(w))
            /\ UNCHANGED <<entry_file, has_full_text, full_text, polling,
                           scheduled, dialog, file, emitted, buf_src,
                           term_applied, applied, yielded>>

\* variant: the error branch leaves the Start button disabled
ErrorStartState_disabled == "disabled"

\* the state poll_queue gives the Start button on an error event
ErrorStartState == "normal"

\* the state poll_queue gives the Save button on a done event
DoneSaveState == "normal"

\* the text view after self.txt.insert("end", payload)
InsertedText(text, payload) == text \o payload

\* variant: get_nowait() takes the newest event
GetIndex_newest(queue) == Len(queue)

\* the position of the event that self.q.get_nowait() takes: the oldest
GetIndex(queue) == 1

\* the queue without the event at position i
RemoveAt(queue, i) == SubSeq(queue, 1, i - 1) \o SubSeq(queue, i + 1, Len(queue))

\* variant: the handler does not schedule its next call
Rescheduled_never == FALSE

\* whether a call of poll_queue is pending once the handler has run
\* self.after(200, self.poll_queue) at its end
Rescheduled == TRUE

\* poll_queue, one turn of its loop that finds an event: get_nowait() takes
\* the oldest event and the branch of its type is applied.  The turn is the
\* first of a call that Tk's timer started, or a later one of the same call.
poll_queue_get ==
    /\ polling \/ scheduled
    /\ q # <<>>
    /\ q' = RemoveAt(q, GetIndex(q))
    /\ q_idx' = RemoveAt(q_idx, GetIndex(q))
    /\ polling' = TRUE
    /\ scheduled' = FALSE
    /\ applied' = [applied EXCEPT ![q[GetIndex(q)].src] =
                      Append(@, q_idx[GetIndex(q)])]
    /\ LET msg_type == q[GetIndex(q)].type
           payload == q[GetIndex(q)].payload
           src == q[GetIndex(q)].src
       IN  CASE msg_type = "progress" ->
                  /\ progress' = payload
                  /\ UNCHANGED <<txt, txt_src, has_full_text, full_text, buf_src,
                                 btn_save, btn_start, dialog, term_applied>>
             [] msg_type = "text" ->
                  /\ txt' = InsertedText(txt, payload)
                  /\ txt_src' = txt_src \cup {src}
                  /\ UNCHANGED <<progress, has_full_text, full_text, buf_src,
                                 btn_save, btn_start, dialog, term_applied>>
             [] msg_type = "done" ->
                  /\ full_text' = payload
                  /\ has_full_text' = TRUE
                  /\ buf_src' = src
                  /\ btn_save' = DoneSaveState
                  /\ dialog' = showinfo("Transcription terminée !")
                  /\ term_applied' = [term_applied EXCEPT ![src] = "done"]
                  /\ UNCHANGED <<progress, txt, txt_src, btn_start>>
             [] msg_type = "error" ->
                  /\ dialog' = showerror(payload)
                  /\ btn_start' = ErrorStartState
                  /\ term_applied' = [term_applied EXCEPT ![src] = "error"]
                  /\ UNCHANGED <<progress, txt, txt_src, has_full_text, full_text,
                                 buf_src, btn_save>>
    /\ UNCHANGED <<entry_file, thread, file, wk, emitted, overlap, yielded>>

\* poll_queue, the turn that finds the queue empty: queue.Empty ends the loop
\* and the handler reschedules itself with self.after(200, self.poll_queue)
poll_queue_empty ==
    /\ polling \/ scheduled
    /\ q = <<>>
    /\ polling' = FALSE
    /\ scheduled' = Rescheduled
    /\ UNCHANGED <<entry_file, btn_start, btn_save, progress, txt, has_full_text,
                   full_text, q, thread, dialog, file, wk, emitted,
                   txt_src, buf_src, term_applied, overlap, q_idx, applied,
                   yielded>>

\* variant: the content of the text view is written instead of the buffer
SaveContent_view == txt

\* what save_txt hands to f.write
SaveContent == full_text

\* variant: the handler disables Save before it attempts the write
save_txt_disables_save ==
    /\ ~polling
    /\ btn_save = "normal"
    /\ \E path \in SavePaths :
         IF path = ""
         THEN UNCHANGED <<file, dialog, btn_save>>
         ELSE /\ btn_save' = "disabled"
              /\ \/ /\ has_full_text
                    /\ \E linesep \in LineSeps :
                         file' = [exists |-> TRUE,
                                  data |-> TextModeWrite(SaveContent, linesep)]
                    /\ dialog' = showinfo("Fichier enregistré :\n" \o path)
                 \/ \E e \in ExcTexts :
                      /\ dialog' = showerror(e)
                      /\ \/ UNCHANGED file
                         \/ file' = [exists |-> TRUE, data |-> <<>>]
    /\ UNCHANGED <<entry_file, btn_start, progress, txt, has_full_text,
                   full_text, q, thread, polling, scheduled, wk, emitted,
                   txt_src, buf_src, term_applied, overlap, q_idx, applied,
                   yielded>>

\* save_txt: the Save button's command
save_txt ==
    /\ ~polling
    /\ btn_save = "normal"
    /\ \E path \in SavePaths :
         IF path = ""
         THEN UNCHANGED <<file, dialog>>
         ELSE \/ /\ has_full_text
                 /\ \E linesep \in LineSeps :
                      file' = [exists |-> TRUE,
                               data |-> TextModeWrite(SaveContent, linesep)]
                 /\ dialog' = showinfo("Fichier enregistré :\n" \o path)
              \/ \E e \in ExcTexts :
                   /\ dialog' = showerror(e)
                   /\ \/ UNCHANGED file
                      \/ file' = [exists |-> TRUE, data |-> <<>>]
    /\ UNCHANGED <<entry_file, btn_start, btn_save, progress, txt, has_full_text,
                   full_text, q, thread, polling, scheduled, wk, emitted,
                   txt_src, buf_src, term_applied, overlap, q_idx, applied,
                   yielded>>

Next ==
    \/ edit_entry
    \/ browse_file
    \/ start_transcription
    \/ poll_queue_get
    \/ poll_queue_empty
    \/ save_txt
    \/ \E w \in Workers : worker_load(w)
    \/ \E w \in Workers : worker_call_transcribe(w, Engine)
    \/ \E w \in Workers : worker_next_segment(w, Engine)
    \/ \E w \in Workers : worker_put_text(w)
    \/ \E w \in Workers : worker_done(w)
    \/ \E w \in Workers : worker_decode_raises(w)

Spec == Init /\ [][Next]_vars

(***************************************************************************)
(* A worker on its own: the window right after its first Start, and then   *)
(* only the steps of the worker thread, over the richer engine.            *)
(***************************************************************************)
WorkerInit ==
    /\ entry_file = "sample.wav"
    /\ btn_start = "disabled"
    /\ btn_save = "disabled"
    /\ progress = Zero
    /\ txt = <<>>
    /\ has_full_text = FALSE
    /\ full_text = <<>>
    /\ q = <<>>
    /\ thread = 1
    /\ polling = FALSE
    /\ scheduled = TRUE
    /\ dialog = NoDialog
    /\ file = [exists |-> FALSE, data |-> <<>>]
    /\ wk = [w \in Workers |-> IF w = 1 THEN Entered ELSE Unborn]
    /\ emitted = [w \in Workers |-> <<>>]
    /\ txt_src = {}
    /\ buf_src = 0
    /\ term_applied = [w \in Workers |-> "none"]
    /\ overlap = FALSE
    /\ q_idx = <<>>
    /\ applied = [w \in Workers |-> <<>>]
    /\ yielded = [w \in Workers |-> <<>>]

WorkerNext ==
    \/ \E w \in Workers : worker_load(w)
    \/ \E w \in Workers : worker_call_transcribe(w, RichEngine)
    \/ \E w \in Workers : worker_next_segment(w, RichEngine)
    \/ \E w \in Workers : worker_put_text(w)
    \/ \E w \in Workers : worker_done(w)
    \/ \E w \in Workers : worker_decode_raises(w)

WorkerSpec == WorkerInit /\ [][WorkerNext]_vars


(***************************************************************************)
(* Vocabulary of the properties                                            *)
(***************************************************************************)
Last(seq) == seq[Len(seq)]

IsTerminal(ev) == ev.type \in {"done", "error"}

\* the events of one type, in emission order
EventsOfType(evs, type) == SelectSeq(evs, LAMBDA ev : ev.type = type)

\* the payloads of the TextChunk events, concatenated in emission order
RECURSIVE ConcatTexts(_)
ConcatTexts(evs) ==
    IF evs = <<>> THEN <<>>
    ELSE (IF Head(evs).type = "text" THEN Head(evs).payload ELSE <<>>)
         \o ConcatTexts(Tail(evs))

\* the same, each payload followed by a line break
RECURSIVE ConcatLines(_)
ConcatLines(evs) ==
    IF evs = <<>> THEN <<>>
    ELSE (IF Head(evs).type = "text" THEN Head(evs).payload \o <<"\n">> ELSE <<>>)
         \o ConcatLines(Tail(evs))

\* (Progress, TextChunk) pairs, then at most one terminal event, which is last
EventOrder(evs) ==
    \A i \in 1..Len(evs) :
        /\ IsTerminal(evs[i]) => i = Len(evs)
        /\ (i % 2 = 1) => evs[i].type \in {"progress", "done", "error"}
        /\ (i % 2 = 0) => (evs[i].type = "text" /\ evs[i - 1].type = "progress")
        /\ (evs[i].type = "progress" /\ i < Len(evs)) => evs[i + 1].type = "text"

\* the run states of section 4.2, read off the current worker
Running == thread # 0 /\ term_applied[thread] = "none"
Completed == thread # 0 /\ term_applied[thread] = "done"
Failed == thread # 0 /\ term_applied[thread] = "error"

\* poll_queue applies worker w's terminal event in this step
AppliesTerminal(w, type) == term_applied[w] = "none" /\ term_applied'[w] = type

\* the last message box is the success notice of save_txt
SaveSucceeded ==
    \E path \in SavePaths : path # "" /\ dialog = showinfo("Fichier enregistré :\n" \o path)

InvalidFileDialog == showerror("Fichier invalide.")

(***************************************************************************)
(* C1 (WorkerSpec).  At every moment the events a worker has put are       *)
(* (Progress, TextChunk) pairs in that order, followed by at most one      *)
(* terminal event after which nothing is put; and once worker_transcribe   *)
(* has returned (load failed, transcribe failed, or the segment sequence   *)
(* was exhausted) the last event is the one terminal event.                *)
(***************************************************************************)
C1_EventSequence ==
    \A w \in Workers :
        /\ EventOrder(emitted[w])
        /\ Returned(w) => (emitted[w] # <<>> /\ IsTerminal(Last(emitted[w])))

\* a run that returned after two pairs and Done
C1_Witness ==
    /\ wk[1].pc = "return_done"
    /\ Len(emitted[1]) = 5

(***************************************************************************)
(* C2 (Spec).  Every engine failure -- at load, at the transcribe call, or *)
(* while the segment sequence is consumed -- leaves an Error event as the  *)
(* worker's last event, and the step in which poll_queue applies an Error  *)
(* enables Start.                                                          *)
(***************************************************************************)
C2_FailureSurfaced ==
    [][ /\ \A w \in Workers :
              wk'[w].pc \in {"return_load_error", "return_transcribe_error", "raised"}
              => (emitted'[w] # <<>> /\ Last(emitted'[w]).type = "error")
        /\ \A w \in Workers : AppliesTerminal(w, "error") => btn_start' = "normal"
      ]_vars

(***************************************************************************)
(* C3 (Spec).  At most one worker thread is alive, and Start is disabled   *)
(* in every state in which the current worker's terminal event has not     *)
(* been applied.                                                           *)
(***************************************************************************)
C3_SingleWorker ==
    /\ Cardinality({w \in Workers : Alive(w)}) <= 1
    /\ Running => btn_start = "disabled"

(***************************************************************************)
(* C4 (Spec).  Save is enabled only in Completed: the Done event of the    *)
(* worker spawned by the most recent Start has been applied.               *)
(***************************************************************************)
C4_SaveOnlyCompleted == btn_save = "normal" => Completed

(***************************************************************************)
(* C5 (Spec).  When the latest Start found no earlier worker still         *)
(* running, the text view holds only TextChunk payloads of the worker it   *)
(* spawned (those applied so far, in order), and once that worker's Done   *)
(* is applied the buffer is that Done's payload.                           *)
(***************************************************************************)
C5_NoResidue ==
    (thread >= 2 /\ ~overlap) =>
        /\ txt_src \subseteq {thread}
        /\ LET chunks == EventsOfType(emitted[thread], "text")
           IN  \E k \in 0..Len(chunks) : txt = ConcatTexts(SubSeq(chunks, 1, k))
        /\ Completed => /\ buf_src = thread
                        /\ has_full_text
                        /\ full_text = Last(emitted[thread]).payload

\* a second run, started after the first had shown text and ended, has shown
\* its own text and completed with a different transcript
C5_Witness ==
    /\ thread = 2 /\ ~overlap
    /\ wk[1].pc = "return_done" /\ term_applied[1] = "done"
    /\ Completed
    /\ txt # <<>>
    /\ Last(emitted[1]).payload # <<>>
    /\ Last(emitted[1]).payload # Last(emitted[2]).payload

(***************************************************************************)
(* C6 (WorkerSpec).  The Progress values a worker puts never decrease in   *)
(* emission order and none exceeds 1.                                      *)
(***************************************************************************)
C6_ProgressMonotone ==
    \A w \in Workers :
        LET P == EventsOfType(emitted[w], "progress")
        IN  \A i \in 1..Len(P) :
                /\ FracLeq(P[i].payload, One)
                /\ i > 1 => FracLeq(P[i - 1].payload, P[i].payload)

\* three rising values, the last one clamped: the segments cover more than
\* the reported duration
C6_Witness ==
    LET P == EventsOfType(emitted[1], "progress")
    IN  /\ Len(P) = 3
        /\ P[1].payload = <<1, 3>>
        /\ P[2].payload = <<2, 3>>
        /\ P[3].payload = One
        /\ wk[1].done > wk[1].duration

(***************************************************************************)
(* C7 as stated (WorkerSpec).  For a run that ends in Done, the TextChunk  *)
(* payloads concatenated in emission order are the Done payload.           *)
(***************************************************************************)
C7_ChunksEqualDone ==
    \A w \in Workers :
        wk[w].pc = "return_done" => ConcatTexts(emitted[w]) = Last(emitted[w]).payload

(***************************************************************************)
(* C7 amended (WorkerSpec).  For a run that ends in Done, the TextChunk    *)
(* payloads, each followed by a line break, concatenated in emission order *)
(* are the Done payload.                                                   *)
(***************************************************************************)
C7_ChunkLinesEqualDone ==
    \A w \in Workers :
        wk[w].pc = "return_done" => ConcatLines(emitted[w]) = Last(emitted[w]).payload

\* a run that ended in Done after two chunks with different texts
C7_Witness ==
    LET chunks == EventsOfType(emitted[1], "text")
    IN  /\ wk[1].pc = "return_done"
        /\ Len(chunks) = 2
        /\ chunks[1].payload # chunks[2].payload

C9_InvalidStartSpawnsNothing ==
    [][ (start_transcription /\ ~isfile(entry_file))
        => UNCHANGED <<thread, wk, q, emitted>> ]_vars

\* Start was pressed with the entry holding no existing file, and rejected
C9_Witness ==
    /\ dialog = InvalidFileDialog
    /\ btn_start = "normal"
    /\ ~isfile(entry_file)

(***************************************************************************)
(* C10 (Spec).  A worker whose engine load failed has put exactly one      *)
(* event, Error("Erreur chargement modèle : " + the engine's message), and *)
(* the step in which poll_queue applies that event leaves Start enabled    *)
(* and Save disabled.                                                      *)
(***************************************************************************)
C10_LoadFailure ==
    [][ \A w \in Workers :
          /\ wk'[w].pc = "return_load_error"
             => emitted'[w] = << [type |-> "error",
                                  payload |-> "Erreur chargement modèle : " \o wk'[w].e,
                                  src |-> w] >>
          /\ (wk[w].pc = "return_load_error" /\ AppliesTerminal(w, "error"))
             => (btn_start' = "normal" /\ btn_save' = "disabled")
      ]_vars

\* the positions (in emitted[w]) of worker w's events waiting in a queue
Pending(queue, idx, w) ==
    {idx[k] : k \in {k \in 1..Len(queue) : queue[k].src = w}}

\* the elements of a sequence
Range(seq) == {seq[i] : i \in 1..Len(seq)}

StrictlyIncreasing(seq) ==
    \A i \in 1..Len(seq), j \in 1..Len(seq) : i < j => seq[i] < seq[j]

(***************************************************************************)
(* C11 (Spec).  The queue is FIFO under every interleaving of worker and   *)
(* UI steps: for each worker, poll_queue applies its events in the order   *)
(* it put them and none twice (the applied positions strictly increase),   *)
(* no event still waiting is older than one already applied (none is       *)
(* skipped), and an event leaves the queue only by being applied or by the *)
(* clear of a Start that passed validation.                                *)
(***************************************************************************)
C11_FifoOrder ==
    [][ \A w \in Workers :
          /\ StrictlyIncreasing(applied'[w])
          /\ Range(applied'[w]) \subseteq 1..Len(emitted'[w])
          /\ \A i \in Pending(q', q_idx', w), a \in Range(applied'[w]) : a < i
          /\ \A k \in 1..Len(q') : q'[k] = emitted'[q'[k].src][q_idx'[k]]
          /\ \A i \in Pending(q, q_idx, w) \ Pending(q', q_idx', w) :
                \/ applied'[w] = Append(applied[w], i)
                \/ (start_transcription /\ isfile(entry_file))
      ]_vars

\* worker 1's second event was cleared by the second Start, its first and
\* third were applied, and so were events of worker 2
C11_Witness ==
    /\ applied[1] = <<1, 3>>
    /\ Len(applied[2]) >= 2

(***************************************************************************)
(* The application under fair scheduling: Tk's event loop runs a pending   *)
(* call of poll_queue after its 200 ms, and a call that has started goes   *)
(* through its loop to the end.  Nothing is assumed of the user or of the  *)
(* worker threads.                                                         *)
(***************************************************************************)
FairSpec == Spec /\ WF_vars(poll_queue_get) /\ WF_vars(poll_queue_empty)

\* the largest number of events one worker puts
MaxEvents == 2 * MaxSegs + 1

\* worker w's i-th event was removed from the queue by a Start's clear
Cleared(w, i) ==
    /\ i <= Len(emitted[w])
    /\ i \notin Pending(q, q_idx, w)
    /\ i \notin Range(applied[w])

(***************************************************************************)
(* C12 (FairSpec).  The poll loop reschedules itself after every drain, so *)
(* no event waits in the queue for ever: again and again each event is     *)
(* either not put yet, or applied by poll_queue, or removed by a Start's   *)
(* clear (the last two are final, so an event that was put and not cleared *)
(* is eventually applied).  In particular the terminal event of a worker   *)
(* that returned after Done or Error is eventually applied (its run is     *)
(* Completed or Failed) unless a Start cleared it.                         *)
(***************************************************************************)
C12_EventuallyApplied ==
    /\ \A w \in Workers : \A i \in 1..MaxEvents :
          []<>(i > Len(emitted[w]) \/ i \in Range(applied[w]) \/ Cleared(w, i))
    /\ \A w \in Workers :
          []<>(~Returned(w) \/ term_applied[w] # "none"
                            \/ Cleared(w, Len(emitted[w])))

\* both runs' terminal events were applied, each in a later call of
\* poll_queue than the one that had found the queue empty before
C12_Witness ==
    /\ term_applied[1] = "done"
    /\ term_applied[2] = "error"
    /\ ~overlap
    /\ scheduled

\* the message boxes save_txt shows when the write raised
SaveErrorDialogs == {showerror(e) : e \in ExcTexts}

(***************************************************************************)
(* C13 (Spec).  A Save whose file write fails changes neither the          *)
(* transcript buffer nor the state of the Start and Save buttons: Save is  *)
(* still enabled over the same buffer, so the same Save can be retried.    *)
(***************************************************************************)
C13_FailedSaveFrame ==
    [][ (save_txt /\ dialog' \in SaveErrorDialogs)
        => /\ UNCHANGED <<has_full_text, full_text, btn_start, btn_save>>
           /\ btn_save' = "normal"
           /\ has_full_text' ]_vars

\* a write failed after it had truncated the file; the buffer still holds a
\* transcript and Save is still enabled
C13_Witness ==
    /\ dialog \in SaveErrorDialogs
    /\ file = [exists |-> TRUE, data |-> <<>>]
    /\ btn_save = "normal"
    /\ has_full_text /\ full_text # <<>>

(***************************************************************************)
(* C14 as stated (Spec).  In both end states of a run, Completed (its      *)
(* Done was applied) and Failed (its Error was applied), the Start action  *)
(* can be taken: the Start button is enabled.                              *)
(***************************************************************************)
C14_StartEnabledInEndStates == (Completed \/ Failed) => btn_start = "normal"

(***************************************************************************)
(* C14 amended (Spec).  In Failed the Start button is enabled; in          *)
(* Completed it is enabled as soon as Browse has returned a path (applying *)
(* Done does not enable it); and a Start that passes validation in either  *)
(* end state spawns the next worker and moves the run state to Running.    *)
(***************************************************************************)
C14_NewRunFromEndStates ==
    [][ /\ Failed' => btn_start' = "normal"
        /\ \A path \in Paths \ {""} :
              (Completed /\ browse_path(path)) => (Completed' /\ btn_start' = "normal")
        /\ ((Completed \/ Failed) /\ start_transcription /\ isfile(entry_file))
              => (Running' /\ thread' = thread + 1)
      ]_vars

\* a second run is Running that was started from Completed, the first run's
\* Done having been applied with no overlap
C14_Witness ==
    /\ thread = 2 /\ Running /\ ~overlap
    /\ term_applied[1] = "done"
    /\ wk[2].pc = "next"

RECURSIVE SumLen(_, _)
SumLen(segs, i) == IF i = 0 THEN 0 ELSE SumLen(segs, i - 1) + segs[i].len

\* the texts of the segments, each followed by a line break
RECURSIVE SegLines(_)
SegLines(segs) ==
    IF segs = <<>> THEN <<>>
    ELSE Head(segs).text \o <<"\n">> \o SegLines(Tail(segs))

\* min(f, 1.0) of a fraction
MinOne(f) == IF FracLeq(One, f) THEN One ELSE f

\* the total duration D the worker divides by, for the durations the engine
\* can report: a zero or absent one is replaced by 1
DivisorsOf(durations) == {IF d = 0 THEN 1 ELSE d : d \in durations}

(***************************************************************************)
(* C16 (WorkerSpec).  When load and transcribe succeed and the engine      *)
(* yields segments s1..sn, the worker has put exactly 2n+1 events when it  *)
(* returns: for each i, Progress(min((len_1 + .. + len_i) / D, 1)) and     *)
(* then TextChunk(text_i), and at the end Done(text_1 "\n" .. text_n "\n");*)
(* the divisor D is the reported duration, or 1 when that is zero or       *)
(* absent, so it is never zero.                                            *)
(***************************************************************************)
C16_ExactEvents ==
    \A w \in Workers :
        /\ wk[w].pc \in {"next", "put_text", "return_done", "raised"}
           => wk[w].duration \in DivisorsOf(RichEngine.durations)
        /\ wk[w].pc = "return_done" =>
             LET segs == yielded[w]
                 n == Len(segs)
                 E == emitted[w]
             IN  /\ Len(E) = 2 * n + 1
                 /\ \A i \in 1..n :
                      /\ E[2 * i - 1].type = "progress"
                      /\ E[2 * i - 1].payload
                           = MinOne(Frac(SumLen(segs, i), wk[w].duration))
                      /\ E[2 * i].type = "text"
                      /\ E[2 * i].payload = segs[i].text
                 /\ E[2 * n + 1].type = "done"
                 /\ E[2 * n + 1].payload = SegLines(segs)

\* a run of three segments with two different texts that cover more than
\* the reported duration of 3, so that the last progress value is clamped
C16_Witness ==
    /\ wk[1].pc = "return_done"
    /\ Len(yielded[1]) = 3
    /\ yielded[1][1].text # yielded[1][3].text
    /\ wk[1].duration = 3
    /\ SumLen(yielded[1], 2) = 2
    /\ SumLen(yielded[1], 3) = 4

(***************************************************************************)
(* C17 (Spec).  Under any interleaving of Browse, Start, poll and worker   *)
(* steps, every event poll_queue applies was put by the worker that the    *)
(* most recent Start spawned.                                              *)
(***************************************************************************)
C17_AppliedFromCurrentWorker ==
    [][ \A w \in Workers : applied'[w] # applied[w] => w = thread ]_vars

(***************************************************************************)
(* C18 (Spec).  In every reachable state in which Save is enabled, the     *)
(* attribute self.full_text (which __init__ does not set) exists: it was   *)
(* assigned when poll_queue applied a Done event, whose payload it holds.  *)
(***************************************************************************)
C18_SaveEnabledBufferDefined ==
    btn_save = "normal" =>
        /\ has_full_text
        /\ buf_src \in Workers
        /\ term_applied[buf_src] = "done"
        /\ full_text = Last(emitted[buf_src]).payload

\* Save is enabled after the first run put a chunk and its Done was applied
C18_Witness ==
    /\ btn_save = "normal"
    /\ thread = 1 /\ buf_src = 1
    /\ has_full_text /\ full_text = <<"a", "\n">>

(***************************************************************************)
(* C19 (Spec).  A Start rejected because the path is not an existing file  *)
(* leaves the UI and the channel as they were: the progress indicator, the *)
(* text view, the states of the Start and Save buttons, the transcript     *)
(* buffer and the events waiting in the queue.                             *)
(***************************************************************************)
C19_RejectedStartFrame ==
    [][ (start_transcription /\ ~isfile(entry_file))
        => /\ UNCHANGED <<progress, txt, btn_start, btn_save>>
           /\ UNCHANGED <<has_full_text, full_text, q>> ]_vars

\* a Start was rejected after the first run had completed: its text, its
\* progress, its buffer and the enabled Save are all still there
C19_Witness ==
    /\ dialog = InvalidFileDialog
    /\ thread = 1 /\ Completed
    /\ txt # <<>> /\ progress = One
    /\ btn_save = "normal" /\ full_text # <<>>

=============================================================================
